---- MODULE Spec2Model ----
(***************************************************************************)
(* useSwipe (src/src/hooks/useSwipe.ts): a React hook that installs        *)
(* touchstart / touchmove / touchend listeners on a target, keeps the      *)
(* start and end point of the gesture in component state, and at touchend  *)
(* hands the deltas to a debounced (200ms) updateSwipeInfo, which writes   *)
(* the four direction flags and, unless keepUpdatedState is set, starts a  *)
(* 100ms timer that writes the initial flags back.                         *)
(*                                                                         *)
(* Host behaviour the hook relies on (React 18 root, DOM events):          *)
(*  - touchstart and touchend are discrete events: the state updates a     *)
(*    listener makes are rendered, and the effects re-run, before the      *)
(*    next event is delivered, so these handlers include the re-render;    *)
(*  - touchmove is a continuous event: its state update is rendered        *)
(*    later, in a task of its own (action Rerender), and another touch     *)
(*    event can be delivered before that;                                  *)
(*  - a state setter called after the component unmounted changes nothing; *)
(*  - the platform delivers touchstart, touchmove*, touchend in order; in  *)
(*    CancelSpec it may also cancel a gesture, which delivers no touchend; *)
(*  - assigning .current of a ref causes no render; in RefSpec the         *)
(*    elements in the hook's ref and in options.ref come and go.           *)
(* Time is counted in milliseconds and advances in steps of RESET_DELAY;   *)
(* a timer that is due fires before time advances again.                   *)
(***************************************************************************)
EXTENDS Integers, Sequences, FiniteSets, TLC

\* ---------------------------------------------------------------- bounds
\* Number of gestures (touchstarts) one behaviour delivers.
MaxGestures ==
    2


\* ------------------------------------------------------- program constants
MIN_SWIPE_DISTANCE ==
    150

DEBOUNCE_WAIT ==
    200

RESET_DELAY ==
    100

\* Values options.minSwipeDistance takes (absent: the default).
Thresholds ==
    {0, MIN_SWIPE_DISTANCE}

\* --------------------------------------------------------------- data types
\* TouchCoordinates | null: a point is <<x, y>>, null is the empty tuple.
Null ==
    <<>>

\* The points a touch is at.  Their differences cover, against the default
\* threshold: one axis above it (200, 0), (0, 200), exactly on it (150, 0),
\* both axes above it with equal (200, -200) and unequal (350, -200)
\* magnitude, and their opposites.
TouchCoordinates ==
    {<<350, 150>>, <<150, 150>>, <<150, 350>>, <<0, 350>>}

NoElement ==
    "none"

\* The elements the caller renders with the hook's ref, and those it puts in
\* options.ref.
OwnElements ==
    {"owned", "replaced"}

ExternalElements ==
    {"external"}

Document ==
    "document"

initialSwipeInfo ==
    [isSwipeLeft |-> FALSE, isSwipeRight |-> FALSE,
     isSwipeUp |-> FALSE, isSwipeDown |-> FALSE]

\* The debounced callback's timer: idle, or waiting with the last arguments.
DebounceIdle ==
    [pending |-> FALSE, deltaX |-> 0, deltaY |-> 0, remaining |-> 0]

\* No call of debouncedStateUpdate is waiting.
NoCalls ==
    [calls |-> 0, deltaX |-> 0, deltaY |-> 0]

VARIABLES
    minSwipeDistance,   \* options.minSwipeDistance ?? MIN_SWIPE_DISTANCE
    keepUpdatedState,   \* options.keepUpdatedState
    useDocument,        \* options.useDocument
    optionsRef,         \* options.ref is supplied
    externalRef,        \* options.ref.current, NoElement when empty or no options.ref
    ownRef,             \* ref.current of the hook's own ref
    mounted,            \* the component is mounted (cleanups have not run)
    touchStart,         \* state touchStart
    touchEnd,           \* state touchEnd
    swipeInfo,          \* state swipeInfo
    listeners,          \* listener tables of the targets: [target, type, handler]
    installed,          \* what the last run of the binding effect installed
    effectDeps,         \* the onTouchEnd in the dependency list of that run
    debounced,          \* debouncedStateUpdate's timer and last arguments
    resetTimers,        \* remaining times of the pending auto-reset timeouts
    finger,             \* platform: Null, or while a finger is down the point
                        \* of its touchstart and of its last touchmove (Null
                        \* before the first)
    gestures,           \* number of touchstarts delivered
    burst,              \* calls of debouncedStateUpdate that updateSwipeInfo
                        \* has not run for, and the arguments of the last one
    written,            \* runs of updateSwipeInfo so far; for the last one,
                        \* the calls it stood for and its arguments
    lastGesture,        \* after a touchend, until the next touchstart: what the
                        \* platform delivered (start minus last move, if it
                        \* moved) and the runs of updateSwipeInfo before it
    cancelled           \* the platform has cancelled a gesture that had moved

platform == <<finger, gestures, lastGesture, cancelled>>

options == <<minSwipeDistance, keepUpdatedState, useDocument, optionsRef>>

config == <<minSwipeDistance, keepUpdatedState, useDocument, optionsRef,
            externalRef, ownRef>>

vars == <<minSwipeDistance, keepUpdatedState, useDocument, optionsRef,
          externalRef, ownRef, mounted, touchStart, touchEnd, swipeInfo,
          listeners, installed, effectDeps, debounced, resetTimers, finger,
          gestures, burst, written, lastGesture, cancelled>>

\* ------------------------------------------------------------ updateSwipeInfo
\* A classification that looks at the vertical axis only when the horizontal
\* one gave nothing.
ClassifyOneAxis(deltaX, deltaY) ==
    [isSwipeLeft  |-> deltaX > minSwipeDistance,
     isSwipeRight |-> deltaX < -minSwipeDistance,
     isSwipeUp    |-> deltaY > minSwipeDistance
                      /\ deltaX <= minSwipeDistance /\ deltaX >= -minSwipeDistance,
     isSwipeDown  |-> deltaY < -minSwipeDistance
                      /\ deltaX <= minSwipeDistance /\ deltaX >= -minSwipeDistance]

\* A classification that counts a displacement equal to the threshold.
ClassifyInclusive(deltaX, deltaY) ==
    [isSwipeLeft  |-> deltaX >= minSwipeDistance,
     isSwipeRight |-> deltaX <= -minSwipeDistance,
     isSwipeUp    |-> deltaY >= minSwipeDistance,
     isSwipeDown  |-> deltaY <= -minSwipeDistance]

\* A classification whose isSwipeRight comparison lost the sign of deltaX.
ClassifySignSlip(deltaX, deltaY) ==
    [isSwipeLeft  |-> deltaX > minSwipeDistance,
     isSwipeRight |-> deltaX > -minSwipeDistance,
     isSwipeUp    |-> deltaY > minSwipeDistance,
     isSwipeDown  |-> deltaY < -minSwipeDistance]

\* The flags updateSwipeInfo(deltaX, deltaY) passes to setSwipeInfo.
Classify(deltaX, deltaY) ==
    [isSwipeLeft  |-> deltaX > minSwipeDistance,
     isSwipeRight |-> deltaX < -minSwipeDistance,
     isSwipeUp    |-> deltaY > minSwipeDistance,
     isSwipeDown  |-> deltaY < -minSwipeDistance]

\* setSwipeInfo(v): the new state; no change once the component is unmounted.
SetSwipeInfo(v) ==
    IF mounted THEN v ELSE swipeInfo

\* updateSwipeInfo without its setTimeout.
ScheduleResetNever(timers) ==
    timers

\* updateSwipeInfo with a setTimeout that ignores keepUpdatedState.
ScheduleResetAlways(timers) ==
    Append(timers, RESET_DELAY)

\* updateSwipeInfo with a setTimeout longer than the debounce wait.
ScheduleResetLate(timers) ==
    IF keepUpdatedState THEN timers
    ELSE Append(timers, DEBOUNCE_WAIT + RESET_DELAY)

\* The auto-reset timeouts after updateSwipeInfo ran:
\* !options?.keepUpdatedState && setTimeout(..., 100).
ScheduleReset(timers) ==
    IF keepUpdatedState THEN timers ELSE Append(timers, RESET_DELAY)

\* ------------------------------------------------------- debouncedStateUpdate
\* A debounce that keeps the arguments of the first call of a burst.
DebouncedCallKeepsFirst(deltaX, deltaY) ==
    IF debounced.pending
    THEN [debounced EXCEPT !.remaining = DEBOUNCE_WAIT]
    ELSE [pending |-> TRUE, deltaX |-> deltaX, deltaY |-> deltaY,
          remaining |-> DEBOUNCE_WAIT]

\* debouncedStateUpdate(deltaX, deltaY): the trailing call replaces the
\* arguments and restarts the wait.
DebouncedCall(deltaX, deltaY) ==
    [pending |-> TRUE, deltaX |-> deltaX, deltaY |-> deltaY,
     remaining |-> DEBOUNCE_WAIT]

\* An unmount that leaves the debounce timer running.
DebouncedNotCancelled ==
    debounced

\* debouncedStateUpdate.cancel()
DebouncedCancel ==
    DebounceIdle

\* ------------------------------------------------------------- onTouchEnd
\* The onTouchEnd callback created by a render in which the state was
\* (start, end): useCallback(..., [touchStart, touchEnd, debouncedStateUpdate]).
MakeOnTouchEnd(start, end) ==
    [name |-> "onTouchEnd", touchStart |-> start, touchEnd |-> end]

StableHandler(n) ==
    [name |-> n, touchStart |-> Null, touchEnd |-> Null]

\* The binding effect has not run yet.
NoCallback ==
    StableHandler("none")

\* if (!touchStart || !touchEnd) return;
ReturnsEarly(h) ==
    h.touchStart = Null \/ h.touchEnd = Null

DeltaX(h) ==
    h.touchStart[1] - h.touchEnd[1]

DeltaY(h) ==
    h.touchStart[2] - h.touchEnd[2]

\* No gesture has ended since the last touchstart.
NoGesture ==
    [ended |-> FALSE, moved |-> FALSE, deltaX |-> 0, deltaY |-> 0, writes |-> 0]

\* What the platform delivered of the gesture that ends: start minus last move.
Displacement(start, end) ==
    IF end = Null
    THEN [ended |-> TRUE, moved |-> FALSE, deltaX |-> 0, deltaY |-> 0,
          writes |-> written.count]
    ELSE [ended |-> TRUE, moved |-> TRUE, deltaX |-> start[1] - end[1],
          deltaY |-> start[2] - end[2], writes |-> written.count]

\* ------------------------------------------------------------ binding effect
\* A resolution that looks at options.ref before options.useDocument.
SwipableElementRefFirst ==
    IF externalRef # NoElement THEN externalRef
    ELSE IF useDocument THEN Document
    ELSE ownRef

\* The target the effect binds to: the document, or
\* options?.ref?.current ?? ref.current.
SwipableElement ==
    IF useDocument THEN Document
    ELSE IF externalRef # NoElement THEN externalRef
    ELSE ownRef

\* The three listeners one run of the effect adds, onTouchEnd being the
\* callback of the render (start, end).
Added(start, end) ==
    IF SwipableElement = NoElement THEN {}
    ELSE {[target |-> SwipableElement, type |-> "touchstart",
           handler |-> StableHandler("onTouchStart")],
          [target |-> SwipableElement, type |-> "touchmove",
           handler |-> StableHandler("onTouchMove")],
          [target |-> SwipableElement, type |-> "touchend",
           handler |-> MakeOnTouchEnd(start, end)]}

\* A cleanup whose removeEventListener('touchend', ...) names another
\* callback than the one that was added.
RemovedButTouchEnd(table, inst) ==
    table \ {l \in inst : l.type # "touchend"}

\* The cleanup the effect returned: removeEventListener for what it added.
Removed(table, inst) ==
    table \ inst

\* Cleanup of the previous run, then the effect of the render (start, end).
Rebound(table, inst, start, end) ==
    Removed(table, inst) \cup Added(start, end)

\* The touchend listener the detector has on its target, if any.
TouchEndHandlers ==
    {l.handler : l \in {m \in listeners :
                          m.type = "touchend" /\ m.handler.name = "onTouchEnd"}}

HasListener(type, name) ==
    \E l \in listeners : l.type = type /\ l.handler.name = name

\* A listener of the page that the detector did not install.
Foreign ==
    [target |-> Document, type |-> "touchstart", handler |-> StableHandler("other")]

\* ------------------------------------------------------------------- Init
\* The hook after its first render, before its effects ran, with the options
\* drawn from the given sets.
FirstRender(thresholds, keeps, documents) ==
    /\ minSwipeDistance \in thresholds
    /\ keepUpdatedState \in keeps
    /\ useDocument \in documents
    /\ optionsRef = FALSE
    /\ externalRef = NoElement
    /\ ownRef = "owned"
    /\ mounted = TRUE
    /\ touchStart = Null
    /\ touchEnd = Null
    /\ swipeInfo = initialSwipeInfo
    /\ listeners = {Foreign}
    /\ installed = {}
    /\ effectDeps = NoCallback
    /\ debounced = DebounceIdle
    /\ resetTimers = <<>>
    /\ finger = Null
    /\ gestures = 0
    /\ burst = NoCalls
    /\ written = [count |-> 0, calls |-> 0, deltaX |-> 0, deltaY |-> 0]
    /\ lastGesture = NoGesture
    /\ cancelled = FALSE

Init ==
    FirstRender(Thresholds, BOOLEAN, BOOLEAN)

\* The default options on the hook's own element.
DefaultInit ==
    FirstRender({MIN_SWIPE_DISTANCE}, {FALSE}, {FALSE})

\* ---------------------------------------------------------------- actions
\* A render whose effects run later than the event that caused it: the first
\* render (mount), or the render after a touchmove.  The binding effect's
\* cleanup runs, then the effect with the callbacks of this render.
Rerender ==
    /\ mounted
    /\ effectDeps # MakeOnTouchEnd(touchStart, touchEnd)
    /\ listeners' = Rebound(listeners, installed, touchStart, touchEnd)
    /\ installed' = Added(touchStart, touchEnd)
    /\ effectDeps' = MakeOnTouchEnd(touchStart, touchEnd)
    /\ UNCHANGED <<config, mounted, touchStart, touchEnd, swipeInfo, debounced,
                   resetTimers, platform, burst, written>>

\* onTouchStart without its setTouchEnd(null).
OnTouchStartKeepsEnd(p) ==
    /\ mounted
    /\ finger = Null
    /\ gestures < MaxGestures
    /\ HasListener("touchstart", "onTouchStart")
    /\ touchStart' = p
    /\ listeners' = Rebound(listeners, installed, p, touchEnd)
    /\ installed' = Added(p, touchEnd)
    /\ effectDeps' = MakeOnTouchEnd(p, touchEnd)
    /\ finger' = <<p, Null>>
    /\ gestures' = gestures + 1
    /\ lastGesture' = NoGesture
    /\ UNCHANGED <<config, mounted, touchEnd, swipeInfo, debounced, resetTimers,
                   burst, written, cancelled>>

\* onTouchStart, with the render it causes.
OnTouchStart(p) ==
    /\ mounted
    /\ finger = Null
    /\ gestures < MaxGestures
    /\ HasListener("touchstart", "onTouchStart")
    /\ touchEnd' = Null
    /\ touchStart' = p
    /\ listeners' = Rebound(listeners, installed, p, Null)
    /\ installed' = Added(p, Null)
    /\ effectDeps' = MakeOnTouchEnd(p, Null)
    /\ finger' = <<p, Null>>
    /\ gestures' = gestures + 1
    /\ lastGesture' = NoGesture
    /\ UNCHANGED <<config, mounted, swipeInfo, debounced, resetTimers, burst,
                   written, cancelled>>

\* onTouchMove; the render follows in Rerender.
OnTouchMove(p) ==
    /\ mounted
    /\ finger # Null
    /\ HasListener("touchmove", "onTouchMove")
    /\ touchEnd' = p
    /\ finger' = <<finger[1], p>>
    /\ UNCHANGED <<config, mounted, touchStart, swipeInfo, listeners, installed,
                   effectDeps, debounced, resetTimers, gestures, lastGesture,
                   burst, written, cancelled>>

\* An onTouchEnd that calls updateSwipeInfo itself instead of the debounced
\* callback.
OnTouchEndWritesAtOnce(h) ==
    /\ mounted
    /\ finger # Null
    /\ h \in TouchEndHandlers
    /\ finger' = Null
    /\ lastGesture' = Displacement(finger[1], finger[2])
    /\ IF ReturnsEarly(h)
       THEN UNCHANGED <<touchStart, touchEnd, listeners, installed, effectDeps,
                        swipeInfo, resetTimers, written>>
       ELSE /\ swipeInfo' = SetSwipeInfo(Classify(DeltaX(h), DeltaY(h)))
            /\ resetTimers' = ScheduleReset(resetTimers)
            /\ written' = [count |-> written.count + 1, calls |-> 1,
                           deltaX |-> DeltaX(h), deltaY |-> DeltaY(h)]
            /\ touchStart' = Null
            /\ touchEnd' = Null
            /\ listeners' = Rebound(listeners, installed, Null, Null)
            /\ installed' = Added(Null, Null)
            /\ effectDeps' = MakeOnTouchEnd(Null, Null)
    /\ UNCHANGED <<config, mounted, debounced, burst, gestures, cancelled>>

\* The installed onTouchEnd callback h runs, with the render it causes.
OnTouchEnd(h) ==
    /\ mounted
    /\ finger # Null
    /\ h \in TouchEndHandlers
    /\ finger' = Null
    /\ lastGesture' = Displacement(finger[1], finger[2])
    /\ IF ReturnsEarly(h)
       THEN UNCHANGED <<touchStart, touchEnd, listeners, installed, effectDeps,
                        debounced, burst>>
       ELSE /\ debounced' = DebouncedCall(DeltaX(h), DeltaY(h))
            /\ burst' = [calls |-> burst.calls + 1,
                         deltaX |-> DeltaX(h), deltaY |-> DeltaY(h)]
            /\ touchStart' = Null
            /\ touchEnd' = Null
            /\ listeners' = Rebound(listeners, installed, Null, Null)
            /\ installed' = Added(Null, Null)
            /\ effectDeps' = MakeOnTouchEnd(Null, Null)
    /\ UNCHANGED <<config, mounted, swipeInfo, resetTimers, gestures, written,
                   cancelled>>

\* The debounce wait is over: updateSwipeInfo runs with the last arguments.
DebounceFire ==
    /\ debounced.pending
    /\ debounced.remaining = 0
    /\ swipeInfo' = SetSwipeInfo(Classify(debounced.deltaX, debounced.deltaY))
    /\ resetTimers' = ScheduleReset(resetTimers)
    /\ debounced' = DebounceIdle
    /\ burst' = NoCalls
    /\ written' = [count |-> written.count + 1, calls |-> burst.calls,
                   deltaX |-> debounced.deltaX, deltaY |-> debounced.deltaY]
    /\ UNCHANGED <<config, mounted, touchStart, touchEnd, listeners, installed,
                   effectDeps, platform>>

\* An auto-reset timeout is due: () => setSwipeInfo(initialSwipeInfo).
ResetFire ==
    /\ resetTimers # <<>>
    /\ Head(resetTimers) = 0
    /\ swipeInfo' = SetSwipeInfo(initialSwipeInfo)
    /\ resetTimers' = Tail(resetTimers)
    /\ UNCHANGED <<config, mounted, touchStart, touchEnd, listeners, installed,
                   effectDeps, debounced, platform, burst, written>>

\* RESET_DELAY milliseconds pass; no timer is overdue.
Tick ==
    /\ debounced.pending \/ resetTimers # <<>>
    /\ debounced.pending => debounced.remaining > 0
    /\ \A i \in 1..Len(resetTimers) : resetTimers[i] > 0
    /\ debounced' = IF debounced.pending
                    THEN [debounced EXCEPT !.remaining = @ - RESET_DELAY]
                    ELSE debounced
    /\ resetTimers' = [i \in 1..Len(resetTimers) |-> resetTimers[i] - RESET_DELAY]
    /\ UNCHANGED <<config, mounted, touchStart, touchEnd, swipeInfo, listeners,
                   installed, effectDeps, platform, burst, written>>

\* The component unmounts: the cleanups of both effects run, and the effect
\* is gone with its dependency list.
Unmount ==
    /\ mounted
    /\ mounted' = FALSE
    /\ debounced' = DebouncedCancel
    /\ listeners' = Removed(listeners, installed)
    /\ installed' = {}
    /\ effectDeps' = NoCallback
    /\ UNCHANGED <<config, touchStart, touchEnd, swipeInfo, resetTimers,
                   platform, burst, written>>

Next ==
    \/ Rerender
    \/ \E p \in TouchCoordinates : OnTouchStart(p)
    \/ \E p \in TouchCoordinates : OnTouchMove(p)
    \/ \E h \in TouchEndHandlers : OnTouchEnd(h)
    \/ DebounceFire
    \/ ResetFire
    \/ Tick
    \/ Unmount

Spec ==
    Init /\ [][Next]_vars

\* The platform cancels the gesture (touchcancel): the detector has no
\* listener for it, and no touchend follows.
TouchCancel ==
    /\ finger # Null
    /\ finger' = Null
    /\ cancelled' = (cancelled \/ finger[2] # Null)
    /\ UNCHANGED <<config, mounted, touchStart, touchEnd, swipeInfo, listeners,
                   installed, effectDeps, debounced, resetTimers, gestures,
                   lastGesture, burst, written>>

\* The default options, with gestures that the platform may cancel.
CancelSpec ==
    DefaultInit /\ [][Next \/ TouchCancel]_vars

\* The touches delivered while the refs change.
RefPoints ==
    {<<350, 150>>, <<150, 150>>}

\* The default threshold and reset, with or without options.useDocument and
\* options.ref; either ref may be empty when the effect first runs.
RefInit ==
    /\ minSwipeDistance = MIN_SWIPE_DISTANCE
    /\ keepUpdatedState = FALSE
    /\ useDocument \in BOOLEAN
    /\ optionsRef \in BOOLEAN
    /\ externalRef \in (IF optionsRef THEN {NoElement} \cup ExternalElements
                                     ELSE {NoElement})
    /\ ownRef \in {NoElement, "owned"}
    /\ mounted = TRUE
    /\ touchStart = Null
    /\ touchEnd = Null
    /\ swipeInfo = initialSwipeInfo
    /\ listeners = {Foreign}
    /\ installed = {}
    /\ effectDeps = NoCallback
    /\ debounced = DebounceIdle
    /\ resetTimers = <<>>
    /\ finger = Null
    /\ gestures = 0
    /\ burst = NoCalls
    /\ written = [count |-> 0, calls |-> 0, deltaX |-> 0, deltaY |-> 0]
    /\ lastGesture = NoGesture
    /\ cancelled = FALSE

\* ref.current of the hook's own ref changes: the element it is rendered on is
\* mounted, replaced or removed.  No state changes and no effect re-runs.
SetOwnRef(e) ==
    /\ mounted
    /\ e # ownRef
    /\ ownRef' = e
    /\ UNCHANGED <<options, externalRef, mounted, touchStart, touchEnd, swipeInfo,
                   listeners, installed, effectDeps, debounced, resetTimers,
                   platform, burst, written>>

\* options.ref.current changes, options.ref staying the same object.
SetExternalRef(e) ==
    /\ mounted
    /\ optionsRef
    /\ e # externalRef
    /\ externalRef' = e
    /\ UNCHANGED <<options, ownRef, mounted, touchStart, touchEnd, swipeInfo,
                   listeners, installed, effectDeps, debounced, resetTimers,
                   platform, burst, written>>

RefNext ==
    \/ Rerender
    \/ \E p \in RefPoints : OnTouchStart(p)
    \/ \E p \in RefPoints : OnTouchMove(p)
    \/ \E h \in TouchEndHandlers : OnTouchEnd(h)
    \/ DebounceFire
    \/ ResetFire
    \/ Tick
    \/ Unmount
    \/ \E e \in {NoElement} \cup OwnElements : SetOwnRef(e)
    \/ \E e \in {NoElement} \cup ExternalElements : SetExternalRef(e)

\* The refs change while the detector runs; timers that are due fire, time
\* passes, and a scheduled render happens.
RefSpec ==
    /\ RefInit
    /\ [][RefNext]_vars
    /\ WF_vars(Rerender)
    /\ WF_vars(DebounceFire)
    /\ WF_vars(ResetFire)
    /\ WF_vars(Tick)

\* Timers that are due fire, time passes, and a scheduled render happens.
FairSpec ==
    /\ DefaultInit
    /\ [][Next]_vars
    /\ WF_vars(Rerender)
    /\ WF_vars(DebounceFire)
    /\ WF_vars(ResetFire)
    /\ WF_vars(Tick)

\* ------------------------------------------------------------- properties
\* A step in which updateSwipeInfo runs.
Writes ==
    written'.count # written.count

\* C1: whatever the deltas and the threshold, a run of updateSwipeInfo
\* leaves in swipeInfo exactly isSwipeLeft = deltaX > minSwipeDistance,
\* isSwipeRight = deltaX < -minSwipeDistance, isSwipeUp = deltaY >
\* minSwipeDistance, isSwipeDown = deltaY < -minSwipeDistance, each axis on
\* its own.
C1_FlagsAreExact ==
    [][Writes =>
         /\ swipeInfo'.isSwipeLeft = (written'.deltaX > minSwipeDistance)
         /\ swipeInfo'.isSwipeRight = (written'.deltaX < -minSwipeDistance)
         /\ swipeInfo'.isSwipeUp = (written'.deltaY > minSwipeDistance)
         /\ swipeInfo'.isSwipeDown = (written'.deltaY < -minSwipeDistance)]_vars

\* The diagonal gesture deltaX = 200, deltaY = -200 against the threshold 150
\* has set isSwipeLeft and isSwipeDown together.
C1_DiagonalWritten ==
    /\ minSwipeDistance = 150
    /\ written.count > 0
    /\ written.deltaX = 200
    /\ written.deltaY = -200
    /\ swipeInfo = [isSwipeLeft |-> TRUE, isSwipeRight |-> FALSE,
                    isSwipeUp |-> FALSE, isSwipeDown |-> TRUE]

\* C2: a displacement equal to the threshold is no swipe: a run of
\* updateSwipeInfo with |deltaX| <= minSwipeDistance sets neither horizontal
\* flag, one with |deltaY| <= minSwipeDistance neither vertical flag, and one
\* with both sets no flag at all.
C2_ThresholdIsNoSwipe ==
    [][Writes =>
         LET inX == /\ written'.deltaX <= minSwipeDistance
                    /\ written'.deltaX >= -minSwipeDistance
             inY == /\ written'.deltaY <= minSwipeDistance
                    /\ written'.deltaY >= -minSwipeDistance
         IN  /\ inX => ~swipeInfo'.isSwipeLeft /\ ~swipeInfo'.isSwipeRight
             /\ inY => ~swipeInfo'.isSwipeUp /\ ~swipeInfo'.isSwipeDown
             /\ inX /\ inY => swipeInfo' = initialSwipeInfo]_vars

\* updateSwipeInfo ran with deltaX equal to the threshold 150 and, the result
\* being kept, no flag is set.
C2_BoundaryWritten ==
    /\ minSwipeDistance = 150
    /\ keepUpdatedState
    /\ written.count > 0
    /\ written.deltaX \in {150, -150}
    /\ written.deltaY = 0
    /\ swipeInfo = initialSwipeInfo


\* The flags the classification rule gives for the deltas.
Flags(deltaX, deltaY) ==
    [isSwipeLeft  |-> deltaX > minSwipeDistance,
     isSwipeRight |-> deltaX < -minSwipeDistance,
     isSwipeUp    |-> deltaY > minSwipeDistance,
     isSwipeDown  |-> deltaY < -minSwipeDistance]

LeftOnly ==
    [isSwipeLeft |-> TRUE, isSwipeRight |-> FALSE,
     isSwipeUp |-> FALSE, isSwipeDown |-> FALSE]

\* Gesture n has ended, and what the platform delivered of it is a
\* displacement to the left only.
LeftSwipeEnded(n) ==
    /\ mounted
    /\ gestures = n
    /\ lastGesture.ended
    /\ lastGesture.moved
    /\ Flags(lastGesture.deltaX, lastGesture.deltaY) = LeftOnly

\* C3: after a touchstart, a touchmove more than minSwipeDistance to the left
\* of it and the touchend, with no unmount and no later gesture, a run of
\* updateSwipeInfo eventually makes swipeInfo isSwipeLeft alone.
C3_LeftSwipeIsReported ==
    \A n \in 1..MaxGestures :
        [](LeftSwipeEnded(n)
           => <>(\/ /\ written.count > lastGesture.writes
                    /\ Flags(written.deltaX, written.deltaY) = LeftOnly
                 \/ ~mounted
                 \/ gestures > n))

\* A step in which debouncedStateUpdate is called.
Calls ==
    burst'.calls > burst.calls

\* A step in which a touchend is delivered.
TouchEnds ==
    finger # Null /\ finger' = Null /\ lastGesture'.ended

\* C4: debouncedStateUpdate is called only by the touchend of a gesture that
\* has a start point and a moved end point; a touchstart followed directly by
\* a touchend schedules nothing and leaves swipeInfo alone; updateSwipeInfo
\* runs only for calls made, so never for more gestures than have ended.
C4_ScheduledOnlyWithBothPoints ==
    /\ [][Calls => TouchEnds /\ finger[1] # Null /\ finger[2] # Null]_vars
    /\ [][TouchEnds /\ finger[2] = Null =>
            UNCHANGED <<debounced, burst, swipeInfo, written>>]_vars
    /\ [][Writes => burst.calls > 0]_vars
    /\ [](written.count + (IF burst.calls > 0 THEN 1 ELSE 0)
            <= gestures - (IF finger # Null THEN 1 ELSE 0))

\* While the call of a first, moved gesture waits, a second gesture was a
\* touchstart followed directly by its touchend, and added no call.
C4_TapAfterSwipe ==
    /\ mounted
    /\ gestures = 2
    /\ lastGesture.ended
    /\ ~lastGesture.moved
    /\ burst.calls = 1
    /\ debounced.pending
    /\ written.count = 0

\* C5: with keepUpdatedState unset, every run of updateSwipeInfo starts a
\* timer of RESET_DELAY; while the detector is mounted, flags that are set
\* have such a timer pending, due within RESET_DELAY, and are eventually
\* all false again.
C5_FlagsRevert ==
    /\ [][Writes /\ ~keepUpdatedState =>
            /\ resetTimers' # <<>>
            /\ resetTimers'[Len(resetTimers')] = RESET_DELAY]_vars
    /\ [](mounted /\ ~keepUpdatedState /\ swipeInfo # initialSwipeInfo =>
            /\ resetTimers # <<>>
            /\ \A i \in 1..Len(resetTimers) : resetTimers[i] <= RESET_DELAY)
    /\ [](mounted /\ ~keepUpdatedState /\ swipeInfo # initialSwipeInfo =>
            <>(swipeInfo = initialSwipeInfo \/ ~mounted))

\* updateSwipeInfo set a flag and the timer has put the initial flags back.
C5_Reverted ==
    /\ mounted
    /\ ~keepUpdatedState
    /\ written.count > 0
    /\ Flags(written.deltaX, written.deltaY) # initialSwipeInfo
    /\ swipeInfo = initialSwipeInfo
    /\ resetTimers = <<>>

\* C6: with keepUpdatedState set no auto-reset timer is ever pending, and
\* swipeInfo changes only in a run of updateSwipeInfo.
C6_KeptUntilNextWrite ==
    /\ [](keepUpdatedState => resetTimers = <<>>)
    /\ [][keepUpdatedState /\ swipeInfo' # swipeInfo => Writes]_vars

\* A kept result is still there when the call of a later gesture has waited
\* its DEBOUNCE_WAIT.
C6_StillSetAfterWait ==
    /\ keepUpdatedState
    /\ mounted
    /\ written.count = 1
    /\ swipeInfo # initialSwipeInfo
    /\ swipeInfo = Flags(written.deltaX, written.deltaY)
    /\ debounced.pending
    /\ debounced.remaining = 0

\* C7: the calls of debouncedStateUpdate made while its timer runs are
\* answered by one run of updateSwipeInfo, which takes all of them and writes
\* the flags of the arguments of the last call; calls leave the timer in no
\* other way while the detector is mounted, and the timer of a mounted
\* detector holds a call exactly while one waits.
C7_BurstCollapses ==
    /\ [][Writes =>
            /\ burst.calls > 0
            /\ burst'.calls = 0
            /\ written'.count = written.count + 1
            /\ swipeInfo' = Flags(burst.deltaX, burst.deltaY)]_vars
    /\ [][burst'.calls < burst.calls => Writes]_vars
    /\ [](mounted => (burst.calls > 0 <=> debounced.pending))
    /\ [](debounced.pending => debounced.remaining <= DEBOUNCE_WAIT)

\* One run of updateSwipeInfo stood for two calls and wrote flags.
C7_TwoCallsOneWrite ==
    /\ mounted
    /\ written.count = 1
    /\ written.calls = 2
    /\ gestures = 2
    /\ swipeInfo = Flags(written.deltaX, written.deltaY)
    /\ swipeInfo # initialSwipeInfo

\* C8: the unmount cancels the debounced call: no call is pending once the
\* detector is unmounted, and updateSwipeInfo never runs after that.
C8_CancelledOnUnmount ==
    /\ [](~mounted => ~debounced.pending)
    /\ [][~mounted => ~Writes]_vars

\* The detector was unmounted while a call waited; the call is gone.
C8_UnmountedWhilePending ==
    /\ ~mounted
    /\ burst.calls > 0
    /\ ~debounced.pending
    /\ written.count = 0

\* C9: after the unmount no auto-reset callback runs and swipeInfo does not
\* change.
C9_ResetCancelledOnUnmount ==
    [][~mounted => /\ Len(resetTimers') >= Len(resetTimers)
                   /\ swipeInfo' = swipeInfo]_vars

\* The listeners the detector has on its targets.
Own ==
    listeners \ {Foreign}

\* C10: the detector's listeners are none, or one touchstart, one touchmove
\* and one touchend listener on its one target, and they are the ones its last
\* effect installed; a listener of the page that is not the detector's stays;
\* a re-binding leaves none of the listeners of the binding before it; after
\* the unmount none is left.
C10_ThreeListenersOrNone ==
    /\ [](/\ Foreign \in listeners
          /\ Own = installed
          /\ \/ Own = {}
             \/ /\ Cardinality(Own) = 3
                /\ \A l \in Own : l.target = SwipableElement
                /\ \A t \in {"touchstart", "touchmove", "touchend"} :
                      Cardinality({l \in Own : l.type = t}) = 1
          /\ ~mounted => Own = {})
    /\ [][installed' # installed =>
            (listeners' \cap installed) \subseteq installed']_vars

\* On the document, after re-bindings: the touchend listener installed is the
\* callback of a render that had both points.
C10_ReboundOnDocument ==
    /\ useDocument
    /\ gestures = 2
    /\ \E l \in Own : /\ l.target = Document
                      /\ l.type = "touchend"
                      /\ l.handler.touchStart # Null
                      /\ l.handler.touchEnd # Null

\* The number of flags of a swipeInfo that are true.
FlagCount(info) ==
    Cardinality({f \in {"isSwipeLeft", "isSwipeRight", "isSwipeUp", "isSwipeDown"} :
                   info[f]})

Abs(n) ==
    IF n < 0 THEN -n ELSE n

\* The deltas of the last run of updateSwipeInfo are beyond the threshold on
\* both axes.
BothAxesBeyond ==
    /\ written.count > 0
    /\ Abs(written.deltaX) > minSwipeDistance
    /\ Abs(written.deltaY) > minSwipeDistance

\* C14 as stated: at most one flag of swipeInfo is true, unless the deltas
\* last classified have equal magnitude on the two axes.
C14_AtMostOneFlag ==
    [](\/ FlagCount(swipeInfo) <= 1
       \/ /\ written.count > 0
          /\ Abs(written.deltaX) = Abs(written.deltaY))

\* C14, amended: at most one flag of swipeInfo is true, unless the deltas
\* last classified are beyond the threshold on both axes, of equal magnitude
\* or not; a run of updateSwipeInfo with such deltas sets exactly two flags.
C14_AtMostOneFlagPerAxis ==
    /\ [](FlagCount(swipeInfo) <= 1 \/ BothAxesBeyond)
    /\ [][Writes /\ mounted =>
            FlagCount(swipeInfo') = (IF BothAxesBeyond' THEN 2 ELSE
                                     IF Flags(written'.deltaX, written'.deltaY)
                                          = initialSwipeInfo THEN 0 ELSE 1)]_vars

\* The deltas (350, -200), of unequal magnitude, have set isSwipeLeft and
\* isSwipeDown against the threshold 150.
C14_UnequalDiagonalWritten ==
    /\ minSwipeDistance = 150
    /\ written.count > 0
    /\ written.deltaX = 350
    /\ written.deltaY = -200
    /\ FlagCount(swipeInfo) = 2
    /\ swipeInfo.isSwipeLeft
    /\ swipeInfo.isSwipeDown

\* C15: every touchend leaves the start point and the end point unset, when
\* a call was scheduled and when the gesture had no touchmove.
C15_TouchEndReturnsToIdle ==
    [][TouchEnds => touchStart' = Null /\ touchEnd' = Null]_vars

\* C16: a call of debouncedStateUpdate gets the point of the gesture's
\* touchstart minus the point of its last touchmove, whenever the render after
\* the touchmove happens; the touchend of a gesture that moved always makes
\* the call.
C16_DeltasOfLastMove ==
    /\ [][Calls =>
            /\ finger[2] # Null
            /\ burst'.deltaX = finger[1][1] - finger[2][1]
            /\ burst'.deltaY = finger[1][2] - finger[2][2]]_vars
    /\ [][TouchEnds /\ finger[2] # Null => Calls]_vars

\* A step in which a touchstart is delivered.
TouchStarts ==
    gestures' = gestures + 1

\* C17: a touchstart unsets the end point and makes its point the start
\* point, in the state and in the installed onTouchEnd, whatever an earlier
\* gesture left there (one the platform cancelled after touchmoves included);
\* so until the new gesture moves nothing of an earlier one is left, and its
\* touchend without a touchmove calls nothing.
C17_TouchStartDiscards ==
    /\ [][TouchStarts =>
            /\ touchEnd' = Null
            /\ touchStart' = finger'[1]
            /\ \A h \in TouchEndHandlers' :
                  h.touchStart = finger'[1] /\ h.touchEnd = Null]_vars
    /\ [](finger # Null /\ finger[2] = Null =>
            /\ touchStart = finger[1]
            /\ touchEnd = Null
            /\ \A h \in TouchEndHandlers :
                  h.touchStart = finger[1] /\ h.touchEnd = Null)
    /\ [][TouchEnds /\ finger[2] = Null =>
            UNCHANGED <<debounced, burst, swipeInfo, written>>]_vars

\* A first gesture moved and was cancelled; the second was a touchstart
\* followed directly by its touchend, and nothing was scheduled.
C17_TapAfterCancelled ==
    /\ mounted
    /\ cancelled
    /\ gestures = 2
    /\ lastGesture.ended
    /\ ~lastGesture.moved
    /\ touchStart # Null
    /\ touchEnd = Null
    /\ burst.calls = 0
    /\ ~debounced.pending
    /\ written.count = 0

\* A step in which an auto-reset callback runs.
Resets ==
    Len(resetTimers') < Len(resetTimers)

\* C18: swipeInfo is initialSwipeInfo until updateSwipeInfo has run, and
\* changes only in a run of updateSwipeInfo or of an auto-reset callback: a
\* touchend, and any step that changes the listeners, leaves it as it is.
C18_ChangedOnlyByTimers ==
    /\ [](written.count = 0 => swipeInfo = initialSwipeInfo)
    /\ [][swipeInfo' # swipeInfo => Writes \/ Resets]_vars
    /\ [][TouchEnds => swipeInfo' = swipeInfo /\ written' = written]_vars
    /\ [][listeners' # listeners => swipeInfo' = swipeInfo]_vars

\* A touchend has just scheduled deltas that are a swipe, and swipeInfo is
\* still initialSwipeInfo.
C18_NothingVisibleAtTouchEnd ==
    /\ mounted
    /\ lastGesture.ended
    /\ burst.calls = 1
    /\ debounced.pending
    /\ debounced.remaining = DEBOUNCE_WAIT
    /\ Flags(burst.deltaX, burst.deltaY) # initialSwipeInfo
    /\ written.count = 0
    /\ swipeInfo = initialSwipeInfo

\* C19: with keepUpdatedState unset at most one auto-reset timeout is
\* pending, none is pending when updateSwipeInfo runs, and while one is
\* pending swipeInfo is the result of the run that started it.
C19_ResetBeforeNextWrite ==
    /\ [](~keepUpdatedState => Len(resetTimers) <= 1)
    /\ [][Writes => resetTimers = <<>>]_vars
    /\ [](resetTimers # <<>> =>
            /\ written.count > 0
            /\ mounted => swipeInfo = Flags(written.deltaX, written.deltaY))

\* updateSwipeInfo has run a second time, after the auto-reset of the first
\* run, and its own auto-reset is pending.
C19_SecondWriteAfterReset ==
    /\ mounted
    /\ ~keepUpdatedState
    /\ written.count = 2
    /\ resetTimers = <<RESET_DELAY>>
    /\ swipeInfo # initialSwipeInfo

\* C20: with minSwipeDistance >= 0, isSwipeLeft and isSwipeRight are never
\* both true, and isSwipeUp and isSwipeDown are never both true.
C20_NoOppositeFlags ==
    [](minSwipeDistance >= 0 =>
         /\ ~(swipeInfo.isSwipeLeft /\ swipeInfo.isSwipeRight)
         /\ ~(swipeInfo.isSwipeUp /\ swipeInfo.isSwipeDown))

\* Against the threshold 0 the deltas (-350, 200) have set isSwipeRight and
\* isSwipeUp and neither of their opposites.
C20_RightUpAtZero ==
    /\ minSwipeDistance = 0
    /\ written.count > 0
    /\ written.deltaX = -350
    /\ written.deltaY = 200
    /\ swipeInfo = [isSwipeLeft |-> FALSE, isSwipeRight |-> TRUE,
                    isSwipeUp |-> TRUE, isSwipeDown |-> FALSE]

\* The targets the detector has listeners on.
Targets ==
    {l.target : l \in Own}

\* C11: with useDocument the detector's listeners are on the document and on
\* no element, whatever the two refs hold; without it none is on the
\* document; and in every state all its listeners are on one target.
C11_OneTargetDocumentFirst ==
    /\ [](useDocument => Targets \subseteq {Document})
    /\ [](~useDocument => Document \notin Targets)
    /\ [](Cardinality(Targets) <= 1)
    /\ [](Targets # {} => Cardinality(Own) = 3)

\* With useDocument, while both refs hold an element, the three listeners are
\* on the document.
C11_DocumentOverRefs ==
    /\ useDocument
    /\ externalRef \in ExternalElements
    /\ ownRef \in OwnElements
    /\ Cardinality(Own) = 3
    /\ Targets = {Document}
    /\ gestures > 0

\* C12: with options.ref supplied and useDocument unset, no listener of the
\* detector is on an element of the hook's own ref, also while
\* options.ref.current is empty.
C12_NeverOnOwnedElement ==
    [](optionsRef /\ ~useDocument => Targets \cap OwnElements = {})

\* The three listeners are on the target the resolution gives now.
Attached ==
    /\ Cardinality(Own) = 3
    /\ Targets = {SwipableElement}

\* C13: an effect that finds no target adds nothing; whenever a target exists
\* (the ref was filled after the effect ran, or holds another element than the
\* one bound) and stays the target, the three listeners are eventually on it
\* and on nothing else, unless the detector is unmounted.
C13_AttachedWhenAvailable ==
    /\ [](effectDeps # NoCallback /\ installed = {} => Own = {})
    /\ \A e \in OwnElements \cup ExternalElements \cup {Document} :
          [](mounted /\ SwipableElement = e
             => <>(Attached \/ ~mounted \/ SwipableElement # e))

====
